---- MODULE Spec2Model ----
(***************************************************************************)
(* Hazard lookup service (src/app.py): KML polygons are loaded into one     *)
(* Layer per hazard field, each Layer gets an STRtree, and query_point      *)
(* locates a point in every Layer by a tiered search.                      *)
(*                                                                         *)
(* Coordinates are integers in units of 0.15 degree, so the 0.45 degree     *)
(* buffer of query_point is 3 units.  Distances are exact squared planar    *)
(* distances, kept as rationals <<numerator, denominator>>.                 *)
(* Python's None is 0 for an index, <<>> for a distance and an absent key   *)
(* for an attribute.  Python positions 0..n-1 are 1..n here.                *)
(***************************************************************************)
EXTENDS Integers, Sequences, FiniteSets, TLC

(* ---------------------------------------------------------------------- *)
(* Bounds of the model                                                     *)
(* ---------------------------------------------------------------------- *)

\* Largest number of .kml files the data directory holds.
MaxFiles == 2

(* ---------------------------------------------------------------------- *)
(* Configuration tables                                                    *)
(* ---------------------------------------------------------------------- *)

\* FILE_FIELD_MAP restricted to the patterns the modelled files carry.  A
\* file is represented by the pattern its name contains ("" when none), so
\* the case-insensitive substring test is a lookup.
FILE_FIELD_MAP ==
    [p \in {"pga-earthquake", "tl-earthquake", "wind-sbc"} |->
        CASE p = "pga-earthquake" -> "pga"
          [] p = "tl-earthquake"  -> "tl"
          [] OTHER                -> "v"]

COMBINE_RULES ==
    [f \in {"pga", "tl", "v"} |->
        CASE f = "pga" -> "max"
          [] f = "tl"  -> "first"
          [] OTHER     -> "max"]

UNITS ==
    [f \in {"pga", "tl", "v"} |->
        CASE f = "pga" -> "g"
          [] f = "tl"  -> "s"
          [] OTHER     -> "m/s"]

\* pt.buffer(0.45): 0.45 degree in units of 0.15 degree.
ExpandBuf == 3

(* ---------------------------------------------------------------------- *)
(* Sequence helpers                                                        *)
(* ---------------------------------------------------------------------- *)

Range(s) == {s[i] : i \in 1..Len(s)}

\* The sequences over S without repetition, of length at most n.
DistinctSeqs(S, n) ==
    UNION {{s \in [1..k -> S] : Cardinality(Range(s)) = k} : k \in 0..n}

Perms(n) == {s \in [1..n -> 1..n] : Range(s) = 1..n}

(* ---------------------------------------------------------------------- *)
(* Geometry (shapely)                                                      *)
(* ---------------------------------------------------------------------- *)

Min2(a, b) == IF a <= b THEN a ELSE b

SetMin(S) == CHOOSE x \in S : \A y \in S : x <= y
SetMax(S) == CHOOSE x \in S : \A y \in S : x >= y

\* Rationals <<n, d>> with d > 0.
RatLess(a, b) == a[1] * b[2] < b[1] * a[2]

\* The bounding box of a vertex ring: <<minx, miny, maxx, maxy>>.
Bounds(ring) ==
    <<SetMin({ring[i][1] : i \in 1..Len(ring)}),
      SetMin({ring[i][2] : i \in 1..Len(ring)}),
      SetMax({ring[i][1] : i \in 1..Len(ring)}),
      SetMax({ring[i][2] : i \in 1..Len(ring)})>>

BoxesIntersect(a, b) ==
    /\ a[1] <= b[3] /\ b[1] <= a[3]
    /\ a[2] <= b[4] /\ b[2] <= a[4]

\* Twice the signed area of the triangle a, b, p.
Cross(a, b, p) ==
    (b[1] - a[1]) * (p[2] - a[2]) - (b[2] - a[2]) * (p[1] - a[1])

NextV(ring, i) == ring[(i % Len(ring)) + 1]

\* Polygon.covers(Point): interior or boundary.  The rings of the model are
\* convex, so the point is covered iff it is on one side of every edge.
Covers(ring, p) ==
    \/ \A i \in 1..Len(ring) : Cross(ring[i], NextV(ring, i), p) >= 0
    \/ \A i \in 1..Len(ring) : Cross(ring[i], NextV(ring, i), p) <= 0

\* Squared distance from p to the segment a-b.
SegDist2(a, b, p) ==
    LET dx   == b[1] - a[1]
        dy   == b[2] - a[2]
        len2 == dx * dx + dy * dy
        t    == (p[1] - a[1]) * dx + (p[2] - a[2]) * dy
        cr   == Cross(a, b, p)
    IN  IF t <= 0 THEN <<(p[1] - a[1]) * (p[1] - a[1]) + (p[2] - a[2]) * (p[2] - a[2]), 1>>
        ELSE IF t >= len2
             THEN <<(p[1] - b[1]) * (p[1] - b[1]) + (p[2] - b[2]) * (p[2] - b[2]), 1>>
             ELSE <<cr * cr, len2>>

RECURSIVE RatMinUpTo(_, _)
\* The least of f[1..n], f a sequence of rationals.
RatMinUpTo(f, n) ==
    IF n = 1 THEN f[1]
    ELSE LET m == RatMinUpTo(f, n - 1)
         IN  IF RatLess(f[n], m) THEN f[n] ELSE m

\* Polygon.distance(Point), squared: 0 when the polygon covers the point,
\* else the least distance to an edge.
Distance2(ring, p) ==
    IF Covers(ring, p) THEN <<0, 1>>
    ELSE RatMinUpTo([i \in 1..Len(ring) |-> SegDist2(ring[i], NextV(ring, i), p)],
                    Len(ring))

(* ---------------------------------------------------------------------- *)
(* The data directory                                                      *)
(* ---------------------------------------------------------------------- *)

\* Rings of the modelled placemarks, vertices as (lon, lat).
Triangle == <<<<0, 0>>, <<8, 0>>, <<0, 8>>>>
SmallSq  == <<<<9, 5>>, <<11, 5>>, <<11, 7>>, <<9, 7>>>>
InnerSq  == <<<<1, 1>>, <<3, 1>>, <<3, 3>>, <<1, 3>>>>
TwoPts   == <<<<5, 5>>, <<6, 6>>>>

\* A placemark: the text of its <name> ("" when absent or empty), the
\* "key: value" lines of its <description>, and its coordinate tokens.
Placemark(name, desc, coords) == [name |-> name, desc |-> desc, coords |-> coords]

\* The .kml files a data directory may hold: the FILE_FIELD_MAP pattern the
\* file name contains ("" when none), the file name and the placemarks.
KmlFiles ==
    { [pattern |-> "pga-earthquake", name |-> "pga-earthquake.kml",
       placemarks |-> <<Placemark("0.35 g", <<>>, Triangle),
                        Placemark("zone", <<<<"PGA", "12">>>>, SmallSq)>>],
      [pattern |-> "pga-earthquake", name |-> "PGA-Earthquake-2.kml",
       placemarks |-> <<Placemark("", <<<<"note", "7">>>>, InnerSq)>>],
      [pattern |-> "tl-earthquake", name |-> "tl-earthquake.kml",
       placemarks |-> <<Placemark("N/A", <<>>, SmallSq),
                        Placemark("3", <<>>, TwoPts)>>],
      [pattern |-> "tl-earthquake", name |-> "tl-earthquake-b.kml",
       placemarks |-> <<Placemark("0.2", <<>>, Triangle)>>],
      [pattern |-> "wind-sbc", name |-> "wind-sbc.kml",
       placemarks |-> <<Placemark("40", <<>>, TwoPts)>>],
      [pattern |-> "", name |-> "notes.kml",
       placemarks |-> <<Placemark("1", <<>>, Triangle)>>] }

\* The query points, as (lon, lat).
QueryPts ==
    { <<2, 2>>, <<4, 4>>, <<10, 6>>, <<7, 6>>, <<10, 9>>, <<20, 20>> }

(* ---------------------------------------------------------------------- *)
(* helpers                                                                 *)
(* ---------------------------------------------------------------------- *)

\* The first numeral of a string, in hundredths; <<>> when it holds none.
FirstNumeral(val) ==
    CASE val = "0.35 g" -> <<35>>
      [] val = "12"     -> <<1200>>
      [] val = "0.2"    -> <<20>>
      [] val = "3"      -> <<300>>
      [] val = "40"     -> <<4000>>
      [] val = "1"      -> <<100>>
      [] val = "7"      -> <<700>>
      [] OTHER          -> <<>>

\* safe_number: the float of the first numeral, else the value unchanged.
safe_number(val) ==
    IF FirstNumeral(val) # <<>> THEN [num |-> FirstNumeral(val)[1]]
    ELSE [str |-> val]

detect_field(pattern) ==
    IF pattern \in DOMAIN FILE_FIELD_MAP THEN FILE_FIELD_MAP[pattern] ELSE ""

\* str.lower on the description keys of the modelled files.
Lower(s) == IF s = "PGA" THEN "pga" ELSE s

\* A dict with at most the key `field`: <<>> is the empty dict.
EmptyAttrs == <<>>
SetAttr(field, v) == <<v>>
HasAttr(attrs) == attrs # <<>>

RECURSIVE DescValue(_, _, _, _)
\* The attribute after the description lines 1..n: each line whose key
\* matches the field overrides it.
DescValue(desc, n, field, attrs) ==
    IF n = 0 THEN attrs
    ELSE LET before == DescValue(desc, n - 1, field, attrs)
         IN  IF Lower(desc[n][1]) = Lower(field)
             THEN SetAttr(field, desc[n][2]) ELSE before

RECURSIVE ParsePlacemarks(_, _, _, _)
\* The (geom, attrs, source) results of placemarks 1..n.
ParsePlacemarks(pms, n, field, src) ==
    IF n = 0 THEN <<>>
    ELSE LET before == ParsePlacemarks(pms, n - 1, field, src)
             pm     == pms[n]
             named  == IF pm.name # "" THEN SetAttr(field, pm.name) ELSE EmptyAttrs
             attrs  == DescValue(pm.desc, Len(pm.desc), field, named)
         IN  IF Len(pm.coords) >= 3
             THEN Append(before, [geom |-> pm.coords, attrs |-> attrs, src |-> src])
             ELSE before

parse_kml_file(file, field) ==
    ParsePlacemarks(file.placemarks, Len(file.placemarks), field, file.name)

(* ---------------------------------------------------------------------- *)
(* layer                                                                   *)
(* ---------------------------------------------------------------------- *)

\* Layer.__init__.  strtree is <<>> for None; a built STRtree is the order
\* in which it visits its geometries, which is also the order of the
\* positions its queries return.
Layer(field) ==
    [field |-> field, geoms |-> <<>>, attrs |-> <<>>, sources |-> <<>>,
     strtree |-> <<>>]

RECURSIVE AppendFeats(_, _, _)
\* Layer L after features 1..n of feats are appended, each value coerced.
AppendFeats(L, feats, n) ==
    IF n = 0 THEN L
    ELSE LET M  == AppendFeats(L, feats, n - 1)
             ft == feats[n]
             at == IF HasAttr(ft.attrs)
                   THEN SetAttr(L.field, safe_number(ft.attrs[1])) ELSE ft.attrs
         IN  [M EXCEPT !.geoms   = Append(@, ft.geom),
                       !.attrs   = Append(@, at),
                       !.sources = Append(@, ft.src)]

FieldIndex(layers, field) ==
    IF \E k \in 1..Len(layers) : layers[k].field = field
    THEN CHOOSE k \in 1..Len(layers) : layers[k].field = field
    ELSE 0

\* One iteration of the file loop of load_layers on a file of a known field.
LoadOne(layers, file) ==
    LET field  == detect_field(file.pattern)
        feats  == parse_kml_file(file, field)
        withL  == IF FieldIndex(layers, field) = 0
                  THEN Append(layers, Layer(field)) ELSE layers
        k      == FieldIndex(withL, field)
    IN  [withL EXCEPT ![k] = AppendFeats(@, feats, Len(feats))]

(* ---------------------------------------------------------------------- *)
(* STRtree and the normalizers                                             *)
(* ---------------------------------------------------------------------- *)

\* The bounds of Point(lon, lat) and of pt.buffer(0.45).
PointBox(pt) == <<pt[1], pt[2], pt[1], pt[2]>>
BufferBox(pt) ==
    <<pt[1] - ExpandBuf, pt[2] - ExpandBuf, pt[1] + ExpandBuf, pt[2] + ExpandBuf>>

\* STRtree.query(geometry): the positions of the geometries whose bounding
\* box intersects the bounding box of the argument, as an array, in the
\* order the tree visits them.
STRtreeQuery(L, box) ==
    [arr |-> SelectSeq(L.strtree,
                       LAMBDA i : BoxesIntersect(Bounds(L.geoms[i]), box))]

RECURSIVE FirstMin(_, _, _, _)
\* Python's min(idxs[0..n-1], key=lambda i: L.geoms[i].distance(pt)): the
\* first position of least distance.
FirstMin(idxs, n, L, pt) ==
    IF n = 1 THEN idxs[1]
    ELSE LET m == FirstMin(idxs, n - 1, L, pt)
         IN  IF RatLess(Distance2(L.geoms[idxs[n]], pt), Distance2(L.geoms[m], pt))
             THEN idxs[n] ELSE m

\* STRtree.nearest(pt): the position of the nearest geometry, as a scalar;
\* of several at the same distance, the one the tree visits first.
STRtreeNearest(L, pt) ==
    [int |-> FirstMin(L.strtree, Len(L.strtree), L, pt)]

\* _to_index_array on the shapes Shapely 2.x returns: an array of positions
\* or a scalar position (None is any other value).
_to_index_array(L, cands) ==
    CASE "arr" \in DOMAIN cands -> cands.arr
      [] "int" \in DOMAIN cands -> <<cands.int>>
      [] OTHER                  -> <<>>

\* _nearest_index that finds nothing.
NearestIndexNone(L, pt, fl) == [raised |-> FALSE, idx |-> 0]

\* _nearest_index.  fl is the set of operations that raise during this
\* call.  [raised, idx]: idx = 0 is None.
_nearest_index(L, pt, fl) ==
    IF L.strtree = <<>> \/ Len(L.geoms) = 0 THEN [raised |-> FALSE, idx |-> 0]
    ELSE IF "nearest" \in fl
         \* only TypeError is caught, and the retry is the same call
         THEN [raised |-> TRUE, idx |-> 0]
         ELSE LET idxs == _to_index_array(L, STRtreeNearest(L, pt))
              IN  IF Len(idxs) >= 1 THEN [raised |-> FALSE, idx |-> idxs[1]]
                  ELSE IF "distance" \in fl THEN [raised |-> FALSE, idx |-> 0]
                  ELSE [raised |-> FALSE,
                        idx |-> FirstMin([i \in 1..Len(L.geoms) |-> i],
                                         Len(L.geoms), L, pt)]

(* ---------------------------------------------------------------------- *)
(* query                                                                   *)
(* ---------------------------------------------------------------------- *)

\* point_geom_distance_km: 0.0 when the geometry covers the point, else the
\* haversine distance between the two nearest points, None (<<>>) when that
\* raises.  The kilometres are kept as the squared separation of the two
\* nearest points, which is 0 exactly when the haversine distance is.
point_geom_distance_km(pt, geom, fl) ==
    IF "covers" \notin fl /\ Covers(geom, pt) THEN <<0, 1>>
    ELSE IF "km" \in fl THEN <<>>
    ELSE Distance2(geom, pt)

\* Strictly inside: the boundary left out.
CoversInterior(ring, p) ==
    \/ \A i \in 1..Len(ring) : Cross(ring[i], NextV(ring, i), p) > 0
    \/ \A i \in 1..Len(ring) : Cross(ring[i], NextV(ring, i), p) < 0

RECURSIVE FirstContaining(_, _, _, _, _)
\* FirstCovering with contains() for covers(): a point on a boundary is
\* not matched.
FirstContaining(L, idxs, k, pt, fl) ==
    IF k > Len(idxs) THEN 0
    ELSE IF "covers" \notin fl /\ CoversInterior(L.geoms[idxs[k]], pt) THEN idxs[k]
    ELSE FirstContaining(L, idxs, k + 1, pt, fl)

RECURSIVE FirstCovering(_, _, _, _, _)
\* The loop "prefer covers": the first of idxs[k..] whose geometry covers
\* pt, 0 when none does; a covers() that raises is skipped.
FirstCovering(L, idxs, k, pt, fl) ==
    IF k > Len(idxs) THEN 0
    ELSE IF "covers" \notin fl /\ Covers(L.geoms[idxs[k]], pt) THEN idxs[k]
    ELSE FirstCovering(L, idxs, k + 1, pt, fl)

\* 1) candidates by point bbox; a query that raises gives none.
BBoxCandidates(L, pt, fl) ==
    _to_index_array(L, IF "query_pt" \in fl THEN [arr |-> <<>>]
                       ELSE STRtreeQuery(L, PointBox(pt)))

\* ExpandNeeded without the test of the candidates.
ExpandWheneverUnchosen(chosen_idx, cand_idxs) == chosen_idx = 0

\* The condition of 2): nothing chosen and no bbox candidate.
ExpandNeeded(chosen_idx, cand_idxs) == chosen_idx = 0 /\ Len(cand_idxs) = 0

\* 2) the candidates of the expanded envelope; a query that raises gives none.
ExpandedCandidates(L, pt, fl) ==
    _to_index_array(L, IF "query_env" \in fl THEN [arr |-> <<>>]
                       ELSE STRtreeQuery(L, BufferBox(pt)))

\* NearestCandidate without the comparison of distances.
FirstCandidate(cand_idxs, L, pt, fl) == cand_idxs[1]

\* 3) the nearest among the candidates, the first candidate when a
\* distance() raises.
NearestCandidate(cand_idxs, L, pt, fl) ==
    IF "distance" \in fl THEN cand_idxs[1]
    ELSE FirstMin(cand_idxs, Len(cand_idxs), L, pt)

\* LayerNearestWanted without the test of force_nearest.
LayerNearestAlways(chosen_idx, force_nearest) == chosen_idx = 0

\* The condition of 4): nothing chosen and force_nearest.
LayerNearestWanted(chosen_idx, force_nearest) == chosen_idx = 0 /\ force_nearest

\* 4) the nearest of the whole layer, on a selection that chose nothing.
NearestOfLayer(sel, L, pt, fl) ==
    [sel EXCEPT !.raised    = _nearest_index(L, pt, fl).raised,
                !.chosen    = _nearest_index(L, pt, fl).idx,
                !.selection = IF _nearest_index(L, pt, fl).idx # 0
                              THEN "nearest_of_layer" ELSE "none",
                !.nearest   = TRUE]

\* The selection after 1) to 3), from the bbox candidates cand1, the
\* covering candidate cov and the final candidates cand.
Selected(L, pt, cand1, cov, cand, fl) ==
    [raised    |-> FALSE,
     chosen    |-> IF cov # 0 THEN cov
                   ELSE IF Len(cand) > 0 THEN NearestCandidate(cand, L, pt, fl)
                   ELSE 0,
     selection |-> IF cov # 0 THEN "covers"
                   ELSE IF Len(cand) > 0 THEN "nearest_of_candidates"
                   ELSE "none",
     inside    |-> cov # 0,
     bbox      |-> cand1,
     expanded  |-> ExpandNeeded(cov, cand1),
     cands     |-> cand,
     nearest   |-> FALSE]

\* 1) to 3) for one layer.
SelectCandidate(L, pt, cand1, cov, fl) ==
    Selected(L, pt, cand1, cov,
             IF ExpandNeeded(cov, cand1) THEN ExpandedCandidates(L, pt, fl)
             ELSE cand1, fl)

\* 4) for one layer.
SelectFallback(sel, L, pt, force_nearest, fl) ==
    IF LayerNearestWanted(sel.chosen, force_nearest)
    THEN NearestOfLayer(sel, L, pt, fl) ELSE sel

\* Steps 1) to 4) of query_point for one layer.  The result records the
\* choice (chosen = 0 is None), the candidates and which index queries
\* were issued (expanded: the envelope query, nearest: the layer query).
SelectGeom(L, pt, force_nearest, fl) ==
    SelectFallback(
        SelectCandidate(L, pt, BBoxCandidates(L, pt, fl),
                        FirstCovering(L, BBoxCandidates(L, pt, fl), 1, pt, fl), fl),
        L, pt, force_nearest, fl)

IsNum(value) == "num" \in DOMAIN value

\* results is a dict in insertion order: a sequence of records, one a field.
HasField(results, field) == \E i \in 1..Len(results) : results[i].field = field
Lookup(results, field) ==
    results[CHOOSE i \in 1..Len(results) : results[i].field = field]
Replace(results, record) ==
    [i \in 1..Len(results) |->
        IF results[i].field = record.field THEN record ELSE results[i]]

\* The combine rule of query_point.
Combine(results, record) ==
    LET field == record.field
        rule  == IF field \in DOMAIN COMBINE_RULES THEN COMBINE_RULES[field]
                 ELSE "first"
        old   == Lookup(results, field).value
    IN  IF ~HasField(results, field) THEN Append(results, record)
        ELSE IF rule = "max"
        THEN IF IsNum(record.value) /\ IsNum(old) /\ record.value.num > old.num
             THEN Replace(results, record) ELSE results
        ELSE IF rule = "min"
        THEN IF IsNum(record.value) /\ IsNum(old) /\ record.value.num < old.num
             THEN Replace(results, record) ELSE results
        ELSE IF rule = "last" THEN Replace(results, record)
        ELSE results

\* The first three exterior coordinates, each as [lat, lon].
SampleLatLon(geom) ==
    [i \in 1..Min2(3, Len(geom)) |-> <<geom[i][2], geom[i][1]>>]

NoFault == [field |-> "", ops |-> {}]
OpsFor(fault, field) == IF fault.field = field THEN fault.ops ELSE {}

\* MakeRecord with the source of the first record of the layer.
MakeRecordFirstSource(L, pt, chosen, fl) ==
    [field       |-> L.field,
     value       |-> L.attrs[chosen][1],
     unit        |-> IF L.field \in DOMAIN UNITS THEN UNITS[L.field] ELSE "",
     source      |-> L.sources[1],
     distance_km |-> point_geom_distance_km(pt, L.geoms[chosen], fl)]

\* The record of a field whose chosen geometry has a value.
MakeRecord(L, pt, chosen, fl) ==
    [field       |-> L.field,
     value       |-> L.attrs[chosen][1],
     unit        |-> IF L.field \in DOMAIN UNITS THEN UNITS[L.field] ELSE "",
     source      |-> L.sources[chosen],
     distance_km |-> point_geom_distance_km(pt, L.geoms[chosen], fl)]

\* The debug row of that field.  The representative point of the polygon
\* is not modelled.
MakeRow(L, record, sel) ==
    [field                 |-> L.field,
     picked_from           |-> L.sources[sel.chosen],
     value                 |-> record.value,
     selection             |-> sel.selection,
     inside_or_on_boundary |-> sel.inside,
     distance_km           |-> record.distance_km,
     polygon_sample_latlon |-> SampleLatLon(L.geoms[sel.chosen])]

\* AddRecord that moves the distance into the debug row: with want_debug
\* the record keeps none.
AddRecordDebugTakesDistance(acc, L, record, sel, want_debug) ==
    [acc EXCEPT !.values = Combine(@, IF want_debug
                                      THEN [record EXCEPT !.distance_km = <<>>]
                                      ELSE record),
                !.debug_rows = IF want_debug THEN Append(@, MakeRow(L, record, sel))
                               ELSE @]

\* The end of the loop body of query_point: the record and the debug row.
AddRecord(acc, L, record, sel, want_debug) ==
    [acc EXCEPT !.values = Combine(@, record),
                !.debug_rows = IF want_debug THEN Append(@, MakeRow(L, record, sel))
                               ELSE @]

\* The loop body of query_point after the selection sel was made for L.
AfterSelect(acc, L, pt, sel, want_debug, fl) ==
    IF sel.raised
    THEN [acc EXCEPT !.raised = TRUE, !.steps = Append(@, [field |-> L.field] @@ sel)]
    ELSE IF sel.chosen = 0 \/ ~HasAttr(L.attrs[sel.chosen])
    THEN [acc EXCEPT !.steps = Append(@, [field |-> L.field] @@ sel)]
    ELSE AddRecord([acc EXCEPT !.steps = Append(@, [field |-> L.field] @@ sel)],
                   L, MakeRecord(L, pt, sel.chosen, fl), sel, want_debug)

\* One iteration of the loop of query_point: acc is [raised, values,
\* debug_rows, steps], steps being the SelectGeom result of every layer
\* that has an index.  Once an iteration raised, none follows.
LoopBody(acc, L, pt, force_nearest, want_debug, fl) ==
    IF acc.raised \/ L.strtree = <<>> THEN acc
    ELSE AfterSelect(acc, L, pt, SelectGeom(L, pt, force_nearest, fl),
                     want_debug, fl)

RECURSIVE QueryLayers(_, _, _, _, _, _)
\* query_point after the layers 1..n of LAYERS.  fault names the operations
\* that raise and the field they raise for.
QueryLayers(LAYERS, n, pt, force_nearest, want_debug, fault) ==
    IF n = 0
    THEN [raised |-> FALSE, values |-> <<>>, debug_rows |-> <<>>, steps |-> <<>>]
    ELSE LoopBody(QueryLayers(LAYERS, n - 1, pt, force_nearest, want_debug, fault),
                  LAYERS[n], pt, force_nearest, want_debug,
                  OpsFor(fault, LAYERS[n].field))

\* query_point(lat, lon, force_nearest, want_debug).  A call that raises
\* returns nothing; debug is None (on = FALSE) unless asked for.
query_point(LAYERS, lat, lon, force_nearest, want_debug, fault) ==
    LET r == QueryLayers(LAYERS, Len(LAYERS), <<lon, lat>>, force_nearest,
                         want_debug, fault)
    IN  IF r.raised
        THEN [raised |-> TRUE, values |-> <<>>,
              debug |-> [on |-> FALSE, rows |-> <<>>], steps |-> r.steps]
        ELSE [raised |-> FALSE, values |-> r.values,
              debug |-> [on |-> want_debug, rows |-> r.debug_rows],
              steps |-> r.steps]

\* The positions in r.steps of the selection made for a field.
StepsOf(r, field) == {i \in 1..Len(r.steps) : r.steps[i].field = field}

\* The operations that may raise together in one query.
FaultOps ==
    { {"query_pt"}, {"query_env"}, {"query_pt", "query_env"}, {"nearest"},
      {"distance"}, {"covers"}, {"km"} }

Faults(LAYERS) ==
    {NoFault} \cup
    {[field |-> LAYERS[k].field, ops |-> o] : k \in 1..Len(LAYERS), o \in FaultOps}

VARIABLES
    files,      \* the files of the data directory load_layers has yet to read
    layers,     \* LAYERS, in insertion order
    built,      \* how many layers build_index has been called on
    phase,      \* "load", "serve" (LAYERS is bound) or "crashed" (the import raised)
    crashedAt,  \* the field whose index build raised, "" when none did
    query,      \* the arguments of the latest query_point call, <<>> before any
    resp,       \* what that call returned
    memo        \* an earlier call and what it returned, <<>> when none is kept

vars == <<files, layers, built, phase, crashedAt, query, resp, memo>>
loadVars == <<files, layers, built, phase, crashedAt>>
queryVars == <<query, resp, memo>>

Init ==
    /\ files \in DistinctSeqs(KmlFiles, MaxFiles)
    /\ layers = <<>>
    /\ built = 0
    /\ phase = "load"
    /\ crashedAt = ""
    /\ query = <<>>
    /\ resp = <<>>
    /\ memo = <<>>

\* load_layers, file loop: a file of no known field is skipped.
SkipFile ==
    /\ phase = "load" /\ files # <<>>
    /\ detect_field(Head(files).pattern) = ""
    /\ files' = Tail(files)
    /\ UNCHANGED <<layers, built, phase, crashedAt>>
    /\ UNCHANGED queryVars

\* load_layers, file loop: the features of a file join its field's layer.
LoadFile ==
    /\ phase = "load" /\ files # <<>>
    /\ detect_field(Head(files).pattern) # ""
    /\ layers' = LoadOne(layers, Head(files))
    /\ files' = Tail(files)
    /\ UNCHANGED <<built, phase, crashedAt>>
    /\ UNCHANGED queryVars

\* Layer.build_index on the next layer.  The rings of the model are valid,
\* so make_valid is not called and `fixed` is the geometries as they are.
BuildIndex ==
    /\ phase = "load" /\ files = <<>> /\ built < Len(layers)
    /\ LET L == layers[built + 1]
       IN  IF L.geoms = <<>>
           THEN layers' = layers
           ELSE \E order \in Perms(Len(L.geoms)) :
                    layers' = [layers EXCEPT ![built + 1].strtree = order]
    /\ built' = built + 1
    /\ UNCHANGED <<files, phase, crashedAt>>
    /\ UNCHANGED queryVars

\* STRtree(self.geoms) raises: nothing in build_index or load_layers catches
\* it, so the module-level LAYERS = load_layers() raises.
BuildIndexRaises ==
    /\ phase = "load" /\ files = <<>> /\ built < Len(layers)
    /\ layers[built + 1].geoms # <<>>
    /\ phase' = "crashed"
    /\ crashedAt' = layers[built + 1].field
    /\ UNCHANGED <<files, layers, built>>
    /\ UNCHANGED queryVars

\* load_layers returns and LAYERS is bound.
FinishLoad ==
    /\ phase = "load" /\ files = <<>> /\ built = Len(layers)
    /\ phase' = "serve"
    /\ UNCHANGED <<files, layers, built, crashedAt>>
    /\ UNCHANGED queryVars

\* Query that moves the chosen geometries to the front of their trees' order.
QueryReordering ==
    /\ phase = "serve" /\ query = <<>>
    /\ \E pt \in QueryPts, force_nearest \in BOOLEAN, want_debug \in BOOLEAN :
          LET r == query_point(layers, pt[2], pt[1], force_nearest, want_debug,
                               NoFault)
              front(L) ==
                  IF StepsOf(r, L.field) = {} THEN L.strtree
                  ELSE LET c == r.steps[CHOOSE i \in StepsOf(r, L.field) : TRUE].chosen
                       IN  IF c = 0 THEN L.strtree
                           ELSE <<c>> \o SelectSeq(L.strtree, LAMBDA i : i # c)
          IN  /\ query' = <<[lat |-> pt[2], lon |-> pt[1],
                             force_nearest |-> force_nearest,
                             want_debug |-> want_debug, fault |-> NoFault]>>
              /\ resp' = <<r>>
              /\ layers' = [k \in 1..Len(layers) |->
                               [layers[k] EXCEPT !.strtree = front(layers[k])]]
    /\ UNCHANGED <<memo, files, built, phase, crashedAt>>

\* A request arrives and query_point(lat, lon, force_nearest, want_debug)
\* runs; nothing raises inside it.
Query ==
    /\ phase = "serve" /\ query = <<>>
    /\ \E pt \in QueryPts, force_nearest \in BOOLEAN, want_debug \in BOOLEAN :
          /\ query' = <<[lat |-> pt[2], lon |-> pt[1],
                         force_nearest |-> force_nearest,
                         want_debug |-> want_debug, fault |-> NoFault]>>
          /\ resp' = <<query_point(layers, pt[2], pt[1], force_nearest,
                                   want_debug, NoFault)>>
    /\ UNCHANGED memo
    /\ UNCHANGED loadVars

\* The same, with the operations of `fault` raising for one field.  Such
\* a request is made while no earlier call is being remembered.
QueryFault ==
    /\ phase = "serve" /\ query = <<>> /\ memo = <<>>
    /\ \E pt \in QueryPts, force_nearest \in BOOLEAN, want_debug \in BOOLEAN,
          fault \in Faults(layers) \ {NoFault} :
          /\ query' = <<[lat |-> pt[2], lon |-> pt[1],
                         force_nearest |-> force_nearest,
                         want_debug |-> want_debug, fault |-> fault]>>
          /\ resp' = <<query_point(layers, pt[2], pt[1], force_nearest,
                                   want_debug, fault)>>
    /\ UNCHANGED memo
    /\ UNCHANGED loadVars

\* The request ends and its results are discarded.  The caller may remember
\* a call in which nothing raised, to compare later calls with it, and may
\* forget the one it remembers.
Return ==
    /\ phase = "serve" /\ query # <<>>
    /\ memo' \in {memo, <<>>} \cup
                 (IF query[1].fault = NoFault
                  THEN {<<[query |-> query[1], resp |-> resp[1]]>>} ELSE {})
    /\ query' = <<>>
    /\ resp' = <<>>
    /\ UNCHANGED loadVars

Next == SkipFile \/ LoadFile \/ BuildIndex \/ BuildIndexRaises \/ FinishLoad
        \/ Query \/ QueryFault \/ Return

Spec == Init /\ [][Next]_vars

(* ---------------------------------------------------------------------- *)
(* Properties                                                              *)
(* ---------------------------------------------------------------------- *)

\* A query_point call has returned (or raised) and its request is open.
Responded == query # <<>>
\* ... and no index or geometry operation raised during it.  The
\* properties of the tiers (C1, C2, C4, C10) are about such calls; what a
\* raising operation does to a call is the subject of C5.
FaultFree == Responded /\ query[1].fault = NoFault
QPt == <<query[1].lon, query[1].lat>>

Indexed(L) == L.strtree # <<>>
Polys(L) == 1..Len(L.geoms)
CoverSet(L, p) == {i \in Polys(L) : Covers(L.geoms[i], p)}
BoxSet(L, box) == {i \in Polys(L) : BoxesIntersect(Bounds(L.geoms[i]), box)}
\* The candidates of the tiers: by point bbox, else by expanded envelope.
CandSet(L, p) ==
    IF BoxSet(L, PointBox(p)) # {} THEN BoxSet(L, PointBox(p))
    ELSE BoxSet(L, BufferBox(p))
Closer(L, p, i, j) == RatLess(Distance2(L.geoms[i], p), Distance2(L.geoms[j], p))
ClosestIn(L, p, i, S) == \A j \in S : ~Closer(L, p, j, i)

RowsOf(r, field) == {i \in 1..Len(r.debug.rows) : r.debug.rows[i].field = field}
\* The selection query_point made for layer L in the latest call.
StepOf(L) == resp[1].steps[CHOOSE i \in StepsOf(resp[1], L.field) : TRUE]
IndexedLayers == {k \in 1..Len(layers) : Indexed(layers[k])}

\* C1: a point covered by exactly one polygon of an indexed layer, that
\* polygon having a value, gets that value with distance 0.0, and a debug
\* row (when asked for) with selection "covers" and inside = TRUE; for both
\* settings of force_nearest and every order of the polygons.
C1_CoveredPointGetsItsPolygon ==
    FaultFree =>
        \A k \in IndexedLayers : \A i \in CoverSet(layers[k], QPt) :
            (CoverSet(layers[k], QPt) = {i} /\ HasAttr(layers[k].attrs[i])) =>
                /\ ~resp[1].raised
                /\ HasField(resp[1].values, layers[k].field)
                /\ Lookup(resp[1].values, layers[k].field).value = layers[k].attrs[i][1]
                /\ Lookup(resp[1].values, layers[k].field).distance_km = <<0, 1>>
                /\ query[1].want_debug =>
                      /\ resp[1].debug.on
                      /\ \E n \in RowsOf(resp[1], layers[k].field) :
                            /\ resp[1].debug.rows[n].selection = "covers"
                            /\ resp[1].debug.rows[n].inside_or_on_boundary

\* C1 witness: such a point in a layer of several polygons that the tree
\* does not visit in layer order, without nearest fallback, with debug.
C1_Witness ==
    /\ FaultFree /\ ~query[1].force_nearest /\ query[1].want_debug
    /\ \E k \in IndexedLayers :
          /\ Len(layers[k].geoms) >= 2
          /\ layers[k].strtree # [i \in Polys(layers[k]) |-> i]
          /\ \E i \in Polys(layers[k]) :
                /\ CoverSet(layers[k], QPt) = {i}
                /\ HasAttr(layers[k].attrs[i])
                /\ HasField(resp[1].values, layers[k].field)

\* The layers of the latest call whose polygons all leave the point out
\* and for which a polygon was chosen.
OutsideChosen ==
    {k \in IndexedLayers :
        /\ CoverSet(layers[k], QPt) = {}
        /\ StepsOf(resp[1], layers[k].field) # {}
        /\ StepOf(layers[k]).chosen # 0}

\* C2 as claimed: with force_nearest, the polygon chosen for a point
\* outside all polygons of a layer is the closest of the whole layer,
\* whichever tier chose it.
C2_ChosenIsClosestOfLayer ==
    (FaultFree /\ query[1].force_nearest) =>
        \A k \in OutsideChosen :
            ClosestIn(layers[k], QPt, StepOf(layers[k]).chosen, Polys(layers[k]))

\* C2 as amended: the polygon chosen for such a point is the closest of the
\* candidates (the polygons whose bounding box holds the point, or when
\* there are none those whose bounding box meets the expanded envelope);
\* it is the closest of the whole layer when there is no candidate.
C2_ChosenIsClosestCandidate ==
    (FaultFree /\ query[1].force_nearest) =>
        \A k \in OutsideChosen :
            IF CandSet(layers[k], QPt) # {}
            THEN /\ StepOf(layers[k]).chosen \in CandSet(layers[k], QPt)
                 /\ ClosestIn(layers[k], QPt, StepOf(layers[k]).chosen,
                              CandSet(layers[k], QPt))
            ELSE ClosestIn(layers[k], QPt, StepOf(layers[k]).chosen,
                           Polys(layers[k]))

\* C2 witness: a point outside all polygons of a layer for which the
\* closest of several candidates at different distances is chosen.
C2_Witness ==
    /\ FaultFree /\ query[1].force_nearest
    /\ \E k \in OutsideChosen :
          /\ \E i, j \in CandSet(layers[k], QPt) : Closer(layers[k], QPt, i, j)
          /\ StepOf(layers[k]).selection = "nearest_of_candidates"

\* C3: without force_nearest, a field with no candidate (none by point
\* bbox, none by expanded envelope) is absent from values and the whole
\* layer is never searched; when that is so for every indexed layer,
\* values is empty.
C3_NoFallbackOmitsField ==
    (Responded /\ ~query[1].force_nearest) =>
        /\ ~resp[1].raised
        /\ \A k \in IndexedLayers :
              CandSet(layers[k], QPt) = {} =>
                  /\ ~HasField(resp[1].values, layers[k].field)
                  /\ ~StepOf(layers[k]).nearest
                  /\ StepOf(layers[k]).selection = "none"
        /\ (\A k \in IndexedLayers : CandSet(layers[k], QPt) = {})
              => resp[1].values = <<>>

\* C3 witness: a far point, no fallback, a layer whose polygons have values.
C3_Witness ==
    /\ FaultFree /\ ~query[1].force_nearest
    /\ \E k \in IndexedLayers :
          /\ CandSet(layers[k], QPt) = {}
          /\ \A i \in Polys(layers[k]) : HasAttr(layers[k].attrs[i])
          /\ resp[1].values = <<>>

\* C4: with force_nearest, every indexed layer whose records all carry a
\* value has an entry in values, wherever the point is.
C4_FallbackAlwaysAnswers ==
    (FaultFree /\ query[1].force_nearest) =>
        /\ ~resp[1].raised
        /\ \A k \in IndexedLayers :
              (\A i \in Polys(layers[k]) : HasAttr(layers[k].attrs[i]))
                  => HasField(resp[1].values, layers[k].field)

\* C4 witness: a point outside every polygon and every expanded envelope
\* answered from the whole layer.
C4_Witness ==
    /\ FaultFree /\ query[1].force_nearest
    /\ \E k \in IndexedLayers :
          /\ CandSet(layers[k], QPt) = {}
          /\ Len(layers[k].geoms) >= 2
          /\ StepOf(layers[k]).selection = "nearest_of_layer"
          /\ HasField(resp[1].values, layers[k].field)

\* C5 as claimed: whatever raises for one field, query_point does not
\* raise and every other field is resolved as without the failure.
C5_FailureStaysInItsField ==
    Responded =>
        /\ ~resp[1].raised
        /\ \A k \in IndexedLayers :
              layers[k].field # query[1].fault.field =>
                  LET clean == query_point(layers, query[1].lat, query[1].lon,
                                           query[1].force_nearest,
                                           query[1].want_debug, NoFault)
                  IN  /\ HasField(resp[1].values, layers[k].field)
                         = HasField(clean.values, layers[k].field)
                      /\ HasField(clean.values, layers[k].field) =>
                            Lookup(resp[1].values, layers[k].field)
                            = Lookup(clean.values, layers[k].field)

\* LAYERS as the queries see it: bound once load_layers has returned.
Registry == IF phase = "serve" THEN layers ELSE <<>>

\* C6 as claimed: once the load has ended, every field with geometries has
\* its layer and index in the registry, except a field whose index build
\* failed.
C6_IndexFailureIsolated ==
    phase \in {"serve", "crashed"} =>
        \A k \in 1..Len(layers) :
            (layers[k].geoms # <<>> /\ layers[k].field # crashedAt) =>
                \E j \in 1..Len(Registry) :
                    /\ Registry[j].field = layers[k].field
                    /\ Indexed(Registry[j])

C8_NoValueNoRecord ==
    (Responded /\ ~resp[1].raised) =>
        /\ \A k \in IndexedLayers :
              (StepOf(layers[k]).chosen # 0
               /\ ~HasAttr(layers[k].attrs[StepOf(layers[k]).chosen])) =>
                  /\ ~HasField(resp[1].values, layers[k].field)
                  /\ RowsOf(resp[1], layers[k].field) = {}
        /\ \A n \in 1..Len(resp[1].values) :
              \E k \in IndexedLayers :
                  /\ layers[k].field = resp[1].values[n].field
                  /\ \E i \in Polys(layers[k]) :
                        /\ HasAttr(layers[k].attrs[i])
                        /\ resp[1].values[n].value = layers[k].attrs[i][1]
                        /\ resp[1].values[n].source = layers[k].sources[i]
                        /\ StepOf(layers[k]).chosen = i

\* C8 witness: a polygon without a value is chosen for one field while
\* another field gets a record.
C8_Witness ==
    /\ FaultFree /\ query[1].want_debug
    /\ resp[1].values # <<>>
    /\ \E k \in IndexedLayers :
          /\ StepOf(layers[k]).chosen # 0
          /\ ~HasAttr(layers[k].attrs[StepOf(layers[k]).chosen])

\* C9: a call that differs from a remembered call in want_debug alone
\* returns the same values; with want_debug there is exactly one debug row
\* for each field of values, with that record's value and distance_km,
\* and no other row; without it there is no debug output.
C9_DebugDoesNotInfluence ==
    Responded =>
        /\ (memo # <<>>
            /\ memo[1].query = [query[1] EXCEPT !.want_debug = ~query[1].want_debug])
              => memo[1].resp.values = resp[1].values
        /\ (query[1].want_debug /\ ~resp[1].raised) =>
              /\ resp[1].debug.on
              /\ Len(resp[1].debug.rows) = Len(resp[1].values)
              /\ \A n \in 1..Len(resp[1].values) :
                    /\ Cardinality(RowsOf(resp[1], resp[1].values[n].field)) = 1
                    /\ \A m \in RowsOf(resp[1], resp[1].values[n].field) :
                          /\ resp[1].debug.rows[m].value = resp[1].values[n].value
                          /\ resp[1].debug.rows[m].distance_km
                             = resp[1].values[n].distance_km
        /\ ~query[1].want_debug =>
              /\ ~resp[1].debug.on
              /\ resp[1].debug.rows = <<>>

\* C9 witness: a call with debug whose remembered twin had none, two
\* fields answered.
C9_Witness ==
    /\ FaultFree /\ query[1].want_debug /\ memo # <<>>
    /\ memo[1].query = [query[1] EXCEPT !.want_debug = FALSE]
    /\ Len(resp[1].values) = 2

\* C10: the envelope query is issued only when the point bbox query gave
\* no candidate; when there are candidates and none covers the point, the
\* closest candidate is chosen as "nearest_of_candidates" with inside =
\* FALSE, whatever force_nearest is; "nearest_of_layer" occurs only with
\* no candidate after expansion and with force_nearest.
C10_TierOrdering ==
    FaultFree =>
        \A k \in IndexedLayers :
            /\ StepOf(layers[k]).expanded = (BoxSet(layers[k], PointBox(QPt)) = {})
            /\ (CandSet(layers[k], QPt) # {}
                /\ CandSet(layers[k], QPt) \cap CoverSet(layers[k], QPt) = {}) =>
                  /\ StepOf(layers[k]).chosen \in CandSet(layers[k], QPt)
                  /\ ClosestIn(layers[k], QPt, StepOf(layers[k]).chosen,
                               CandSet(layers[k], QPt))
                  /\ StepOf(layers[k]).selection = "nearest_of_candidates"
                  /\ ~StepOf(layers[k]).inside
            /\ StepOf(layers[k]).selection = "nearest_of_layer" =>
                  /\ CandSet(layers[k], QPt) = {}
                  /\ query[1].force_nearest

\* C10 witness: without force_nearest, a bbox candidate that does not
\* cover the point is chosen while a polygon outside the bbox candidates
\* exists, and no envelope query is issued.
C10_Witness ==
    /\ FaultFree /\ ~query[1].force_nearest
    /\ \E k \in IndexedLayers :
          /\ StepOf(layers[k]).selection = "nearest_of_candidates"
          /\ ~StepOf(layers[k]).expanded
          /\ CandSet(layers[k], QPt) # Polys(layers[k])

====
